---- MODULE Spec2Model ----
(***************************************************************************)
(* Book-Summarizer-by-Gemini: the summarisation pipeline of App            *)
(* (processBook, smartSplitText and the handlers the user can fire while   *)
(* a run is in flight) as a state machine.                                 *)
(*                                                                         *)
(* A text is a sequence of pieces; a piece is one character, or the block  *)
(* BigBlock that stands for BigBlockWidth letters which are never taken    *)
(* apart (only model responses hold it; a parsed text holds characters     *)
(* only, so smartSplitText indexes characters).  One step of the model is  *)
(* one task of the JavaScript event loop: a user event handler, or the     *)
(* continuation of processBook that runs when an awaited promise settles   *)
(* (with every microtask that follows it).                                 *)
(***************************************************************************)
EXTENDS Integers, Sequences, FiniteSets, TLC

\* ------------------------------------------------------------------ bounds

\* processBook invocations modelled (they may overlap in time).
MaxRuns == 2
\* Largest number of CHUNK_SIZE pieces in a parsed text.
MaxChunks == 3
\* Chunks of all the texts parsed in one behaviour, together.
MaxTotalChunks == 3
\* File selections, history views, backup imports and deletions the user makes
\* in one behaviour.
MaxUserEvents == 3
\* smartSplitText run on its own: the longest text written out character by
\* character (and the width of the stretch that varies in a longer text), the
\* largest maxSize for such texts, and the longest lookback window exercised.
MaxTextLen == 4
MaxSmallSize == 3
MaxLookback == 2
\* The clock's last reading, in seconds after the first.
MaxSeconds == 15
\* import { CHUNK_SIZE, MAX_CONCURRENT_REQUESTS } from './constants': the
\* characters per chunk and the calls per batch, scaled down (./constants is
\* not among the sources; the lookback of smartSplitText scales with it).
CHUNK_SIZE == 100
MAX_CONCURRENT_REQUESTS == 2

\* --------------------------------------------------------------- constants

\* if (text.length < 100) throw new Error("Text too short.")
MIN_TEXT_LENGTH == 100
\* currentDraftRef.current.length > 500
PARTIAL_MIN_LENGTH == 500
\* Math.round(((i + batch.length) / chunks.length) * 60)
EXTRACT_WEIGHT == 60
\* setProgress(80) after consolidation, setProgress(100) after polish
CONSOLIDATED_PROGRESS == 80
COMPLETED_PROGRESS == 100
\* Math.min(5000, Math.floor(maxSize * 0.05))
LOOKBACK_MAX == 5000
LOOKBACK_PERCENT == 5
\* Math.max(30, initialEstimate)
MIN_ESTIMATE == 30
\* text.length * 0.00048: 240 seconds for 500,000 characters
CHARS_PER_ESTIMATE_UNIT == 500000
SECONDS_PER_ESTIMATE_UNIT == 240
\* (now - startT) / 1000
MS_PER_SECOND == 1000

\* ------------------------------------------------------------------- text

Min(a, b) == IF a < b THEN a ELSE b
Max(a, b) == IF a > b THEN a ELSE b

Rep(c, n) == [k \in 1..n |-> c]

\* The block of letters a long model response is made of, and its length.
BigBlock == "x*500"
BigBlockWidth == PARTIAL_MIN_LENGTH

\* String.prototype.length
RECURSIVE TextLen(_)
TextLen(s) ==
    IF Len(s) = 0 THEN 0
    ELSE (IF Head(s) = BigBlock THEN BigBlockWidth ELSE 1) + TextLen(Tail(s))

\* String.prototype.trim: white space removed at both ends.
IsSpace(c) == c \in {" ", "\n", "\t"}

TrimStart(s) ==
    LET keep == {k \in 1..Len(s) : ~IsSpace(s[k])}
    IN  IF keep = {} THEN <<>>
        ELSE SubSeq(s, CHOOSE k \in keep : \A m \in keep : k <= m, Len(s))

Trim(s) ==
    LET keep == {k \in 1..Len(s) : ~IsSpace(s[k])}
    IN  IF keep = {} THEN <<>>
        ELSE SubSeq(s, CHOOSE k \in keep : \A m \in keep : k <= m,
                       CHOOSE k \in keep : \A m \in keep : k >= m)

\* text.slice(a, b) for 0 <= a, b (0-based, end exclusive, clamped to the text).
Slice(s, a, b) == SubSeq(s, a + 1, Min(b, Len(s)))

\* searchBuffer.lastIndexOf(c): 0-based index of the last c, -1 if none.
LastIndexOf(s, c) ==
    LET at == {k \in 1..Len(s) : s[k] = c}
    IN  IF at = {} THEN -1 ELSE (CHOOSE k \in at : \A m \in at : k >= m) - 1

\* Math.min(5000, Math.floor(maxSize * 0.05))
Lookback(maxSize) == Min(LOOKBACK_MAX, (maxSize * LOOKBACK_PERCENT) \div 100)

SplitEndRelativeToStart(text, maxSize, startIndex) ==
    LET endIndex == Min(startIndex + maxSize, Len(text))
    IN  IF endIndex < Len(text)
        THEN LET lookback == Lookback(maxSize)
                 searchBuffer == Slice(text, endIndex - lookback, endIndex)
                 bestSplitRelative ==
                     Max(Max(LastIndexOf(searchBuffer, "."), LastIndexOf(searchBuffer, "!")),
                         Max(LastIndexOf(searchBuffer, "?"), LastIndexOf(searchBuffer, "\n")))
             IN  IF bestSplitRelative # -1
                 THEN startIndex + bestSplitRelative
                 ELSE endIndex
        ELSE endIndex

SplitEndSearchesWholePiece(text, maxSize, startIndex) ==
    LET endIndex == Min(startIndex + maxSize, Len(text))
    IN  IF endIndex < Len(text)
        THEN LET searchBuffer == Slice(text, startIndex, endIndex)
                 bestSplitRelative ==
                     Max(Max(LastIndexOf(searchBuffer, "."), LastIndexOf(searchBuffer, "!")),
                         Max(LastIndexOf(searchBuffer, "?"), LastIndexOf(searchBuffer, "\n")))
             IN  IF bestSplitRelative # -1
                 THEN startIndex + bestSplitRelative + 1
                 ELSE endIndex
        ELSE endIndex

SplitEndAtFirstBoundary(text, maxSize, startIndex) ==
    LET endIndex == Min(startIndex + maxSize, Len(text))
    IN  IF endIndex < Len(text)
        THEN LET lookback == Lookback(maxSize)
                 searchBuffer == Slice(text, endIndex - lookback, endIndex)
                 IndexOf(c) ==
                     LET at == {k \in 1..Len(searchBuffer) : searchBuffer[k] = c}
                     IN  IF at = {} THEN -1
                         ELSE (CHOOSE k \in at : \A m \in at : k <= m) - 1
                 bestSplitRelative ==
                     Max(Max(IndexOf("."), IndexOf("!")), Max(IndexOf("?"), IndexOf("\n")))
             IN  IF bestSplitRelative # -1
                 THEN (endIndex - lookback) + bestSplitRelative + 1
                 ELSE endIndex
        ELSE endIndex

SplitEndAlwaysLooksBack(text, maxSize, startIndex) ==
    LET endIndex == Min(startIndex + maxSize, Len(text))
        lookback == Lookback(maxSize)
        searchBuffer == Slice(text, Max(endIndex - lookback, 0), endIndex)
        bestSplitRelative ==
            Max(Max(LastIndexOf(searchBuffer, "."), LastIndexOf(searchBuffer, "!")),
                Max(LastIndexOf(searchBuffer, "?"), LastIndexOf(searchBuffer, "\n")))
    IN  IF bestSplitRelative # -1
        THEN Max(endIndex - lookback, 0) + bestSplitRelative + 1
        ELSE endIndex

\* The end index smartSplitText chooses for the piece that starts at startIndex.
SplitEnd(text, maxSize, startIndex) ==
    LET endIndex == Min(startIndex + maxSize, Len(text))
    IN  IF endIndex < Len(text)
        THEN LET lookback == Lookback(maxSize)
                 searchBuffer == Slice(text, endIndex - lookback, endIndex)
                 bestSplitRelative ==
                     Max(Max(LastIndexOf(searchBuffer, "."), LastIndexOf(searchBuffer, "!")),
                         Max(LastIndexOf(searchBuffer, "?"), LastIndexOf(searchBuffer, "\n")))
             IN  IF bestSplitRelative # -1
                 THEN (endIndex - lookback) + bestSplitRelative + 1
                 ELSE endIndex
        ELSE endIndex

RECURSIVE SplitFrom(_, _, _, _)
SplitFrom(text, maxSize, startIndex, chunks) ==
    IF startIndex < Len(text)
    THEN LET endIndex == SplitEnd(text, maxSize, startIndex)
             chunk == Trim(Slice(text, startIndex, endIndex))
         IN  SplitFrom(text, maxSize, endIndex,
                       IF Len(chunk) > 0 THEN Append(chunks, chunk) ELSE chunks)
    ELSE chunks

smartSplitText(text, maxSize) == SplitFrom(text, maxSize, 0, <<>>)

\* Array.prototype.join
RECURSIVE Join(_, _)
Join(parts, delim) ==
    IF Len(parts) = 0 THEN <<>>
    ELSE IF Len(parts) = 1 THEN parts[1]
    ELSE parts[1] \o delim \o Join(Tail(parts), delim)

\* extractedSummaries.filter(s => s.trim().length > 0)
NonBlank(s) == TextLen(Trim(s)) > 0

DraftDelimiter == <<"\n", "\n">>

\* A Draft built without dropping the empty fragments.
JoinDraftUnfiltered(extractedSummaries) == Join(extractedSummaries, DraftDelimiter)

\* extractedSummaries.filter(s => s.trim().length > 0).join("\n\n")
JoinDraft(extractedSummaries) ==
    Join(SelectSeq(extractedSummaries, NonBlank), DraftDelimiter)


\* ----------------------------------------------------------- environment

\* ai.models.generateContent resolves with a response whose text and
\* usageMetadata.totalTokenCount may both be absent, or rejects with an error.
BigText == <<BigBlock>>

NoTextResponse == [hasText |-> FALSE, text |-> <<>>, hasUsage |-> FALSE, totalTokenCount |-> 0]

TextResponse(t) == [hasText |-> TRUE, text |-> t, hasUsage |-> TRUE, totalTokenCount |-> 1]

\* Extraction answers: white space only, or a text of PARTIAL_MIN_LENGTH letters.
ExtractResponses == {TextResponse(<<" ">>), TextResponse(BigText)}

StageResponses == {NoTextResponse, TextResponse(<<"S">>)}

AuthError == [message |-> "API key not valid", status |-> 401]
TransientError == [message |-> "fetch failed", status |-> 500]
TransformErrors == {AuthError, TransientError}

\* Texts parseFile can resolve with: too short, white space only, and k pieces
\* of CHUNK_SIZE characters without sentence boundaries.
ParseTexts ==
    {Rep("a", MIN_TEXT_LENGTH - 1), Rep("\n", MIN_TEXT_LENGTH)}
        \cup {Rep("a", k * CHUNK_SIZE) : k \in 1..MaxChunks}

\* A file the user can pick, and the object the history View button puts in its
\* place ({ name: item.fileName } as File), which has no content to read.
PickableFiles == {[name |-> <<"book.txt">>, real |-> TRUE]}
NoFile == [name |-> <<>>, real |-> FALSE]

\* localStorage "summary_history" as the mount effect may find it.
StoredItem ==
    [id |-> 0, timestamp |-> 0, fileName |-> <<"old.txt">>, summary |-> <<"O">>,
     tokenUsage |-> 0]
StoredHistories == {<<>>, <<StoredItem>>}

\* ------------------------------------------------------------------ state

VARIABLES
    file,             \* useState<File | null>
    processingState,  \* useState<ProcessingState>
    logs,             \* useState<LogEntry[]>, as the set of its entries
    finalSummary,     \* useState<string>
    progress,         \* useState(0)
    currentDraftRef,  \* useRef<string>("")
    history,          \* useState<HistoryItem[]>
    sessionTokens,    \* useState<number>(0)
    nextId,           \* stands for the random suffix of a HistoryItem id
    userEvents,       \* file selections and history views made so far
    chunksParsed,     \* chunks of the texts parsed so far
    runs,             \* the invocations of processBook, with their locals
    split,            \* a call of smartSplitText run on its own, with its locals
    alerted,          \* the message of the last alert() shown
    timer,            \* the clock and the timer statistics, followed on their own
    backups           \* the backup files exported and imported, followed on their own

vars == <<file, processingState, logs, finalSummary, progress, currentDraftRef,
          history, sessionTokens, nextId, userEvents, chunksParsed, runs, split,
          alerted, timer, backups>>

RunIds == 1..MaxRuns

Unsettled == [settled |-> FALSE, idx |-> 0, text |-> <<>>]

\* The locals of a processBook invocation that has not started: pc (the await
\* it stands at), the file, processingState and sessionTokens its closure
\* captured, totalChunks, i, extractedSummaries, the batch's calls in flight
\* (pending) and the array Promise.all builds (results), combinedDraft.
\* The other fields record what happened to the invocation: the fragment each
\* chunk's call produced, the calls that were rejected (chunk index, status),
\* whether a call settled before one of a lower index, whether the fragments
\* held usable text when the loop ended, the stage calls issued, the tokens its
\* resolved calls reported, the records saved, and how it returned (exit, and
\* the message of the error caught).
NoRun ==
    [pc |-> "none", file |-> NoFile, processingState |-> "IDLE", sessionTokens |-> 0,
     totalChunks |-> 0, i |-> 0, extractedSummaries |-> <<>>, pending |-> {},
     results |-> <<>>, combinedDraft |-> <<>>, fragments |-> <<>>, failed |-> {},
     raced |-> FALSE, usable |-> "unknown", issued |-> {}, tokens |-> 0, saved |-> 0,
     exit |-> "none", error |-> ""]

\* The locals of smartSplitText when no call of it is followed on its own: pc,
\* the arguments text and maxSize, startIndex, chunks, and the slices cut so
\* far (the startIndex and endIndex of each iteration, in order).
NoSplit ==
    [pc |-> "off", text |-> <<>>, maxSize |-> 0, startIndex |-> 0, chunks |-> <<>>,
     slices |-> <<>>]

\* A value of type number | null.
Null == [isNull |-> TRUE, value |-> 0]
Number(n) == [isNull |-> FALSE, value |-> n]

\* The clock and the timer statistics before anything has run: pc (where the
\* invocation followed stands), the clock (now, in milliseconds), the local
\* startT, the states startTime, elapsedSeconds and estimatedTotalDuration,
\* the length of the text parsed, the loop's i, totalChunks and
\* chunksCompleted, and the invocations begun.
NoTimer ==
    [pc |-> "off", now |-> 0, startT |-> 0, startTime |-> Null, elapsedSeconds |-> 0,
     estimatedTotalDuration |-> Null, textLength |-> 0, i |-> 0, totalChunks |-> 0,
     chunksCompleted |-> 0, begun |-> 0]

\* The backup files when none is followed: the file the export button has
\* downloaded last, the file whose import was the last thing done to history,
\* and how many times in a row it was imported.
NoBackups == [exported |-> <<>>, imported |-> <<>>, repeats |-> 0]

\* The React state and refs a continuation of processBook reads and writes.
Globals ==
    [processingState |-> processingState, logs |-> logs, finalSummary |-> finalSummary,
     progress |-> progress, currentDraftRef |-> currentDraftRef, history |-> history,
     sessionTokens |-> sessionTokens, nextId |-> nextId]

Commit(g) ==
    /\ processingState' = g.processingState
    /\ logs' = g.logs
    /\ finalSummary' = g.finalSummary
    /\ progress' = g.progress
    /\ currentDraftRef' = g.currentDraftRef
    /\ history' = g.history
    /\ sessionTokens' = g.sessionTokens
    /\ nextId' = g.nextId

\* A log entry: its type, the message template (tag), the part number the
\* template is filled with (0 when it has none) and the error message in it.
LogEntry(type, tag, part, detail) == [type |-> type, tag |-> tag, part |-> part, detail |-> detail]

addLog(g, type, tag, part, detail) ==
    [g EXCEPT !.logs = @ \cup {LogEntry(type, tag, part, detail)}]

isInteractionEnabled == processingState \in {"IDLE", "COMPLETED", "ERROR"}

TypeOK ==
    /\ processingState \in {"IDLE", "PARSING", "CHUNKING", "SUMMARIZING", "POLISHING", "COMPLETED", "ERROR"}
    /\ progress \in 0..100
    /\ sessionTokens \in Nat
    /\ \A r \in RunIds : runs[r].pc \in {"none", "parse", "extract", "consolidate", "polish", "done"}
    /\ split.pc \in {"off", "loop", "done"}

Init ==
    /\ file = NoFile
    /\ processingState = "IDLE"
    /\ logs = {}
    /\ finalSummary = <<>>
    /\ progress = 0
    /\ currentDraftRef = <<>>
    /\ history \in StoredHistories
    /\ sessionTokens = 0
    /\ nextId = 1
    /\ userEvents = 0
    /\ chunksParsed = 0
    /\ runs = [r \in RunIds |-> NoRun]
    /\ split = NoSplit
    /\ alerted = ""
    /\ timer = NoTimer
    /\ backups = NoBackups


\* -------------------------------------------------------------- processBook

\* What a continuation of processBook leaves: the React state and its locals.
Out(g, run) == [g |-> g, run |-> run]

\* The one outcome of a continuation entered from one state ({K(at.g, at.run) :
\* at \in {Out(g, run)}}): the state it is entered from is computed once.
Only(outcomes) == CHOOSE out \in outcomes : TRUE

\* processBook has returned: its locals are gone; how it ended is kept.
Finish(run, exit, message, saved) ==
    [NoRun EXCEPT !.pc = "done", !.exit = exit, !.error = message,
                  !.failed = run.failed, !.usable = run.usable,
                  !.issued = run.issued, !.tokens = run.tokens,
                  !.saved = run.saved + saved]

ParseError == [message |-> "Failed to parse file.", status |-> 0]
TooShortError == [message |-> "Text too short.", status |-> 0]
NoTextError == [message |-> "Failed to extract any text.", status |-> 0]

\* response.text || ""
TextOf(response) == IF response.hasText THEN response.text ELSE <<>>

\* response.usageMetadata?.totalTokenCount || 0
UsageOf(response) == IF response.hasUsage THEN response.totalTokenCount ELSE 0

PartialTag == " (PARTIAL)"

\* const newHistoryItem: HistoryItem = {...}: the identifier, the timestamp, the
\* file name, the summary and the token usage (language and model are not
\* modelled).  Date.now() is read as the number of records saved before, plus
\* one: it tells the order of the saves, and no two identifiers are equal.
NewHistoryItem(g, fileName, summary, tokenUsage) ==
    [id |-> g.nextId, timestamp |-> g.nextId, fileName |-> fileName, summary |-> summary,
     tokenUsage |-> tokenUsage]

\* setHistory(prev => [newHistoryItem, ...prev])
SaveItem(g, item) == [g EXCEPT !.history = <<item>> \o @, !.nextId = @ + 1]

\* currentDraftRef.current && currentDraftRef.current.length > 500
DraftRecoverable(draft) == TextLen(draft) > PARTIAL_MIN_LENGTH

\* A catch block that logs the error and leaves the phase as it was.
CatchKeepsPhase(g, run, error) ==
    Out(addLog(g, "error", "critical", 0, error.message),
        Finish(run, "error", error.message, 0))

\* A catch block that saves a record of the run also when it ends in ERROR.
CatchSavesOnError(g, run, error) ==
    IF DraftRecoverable(g.currentDraftRef)
    THEN LET g1 == addLog(addLog(g, "warning", "recovered", 0, ""), "info", "rawDraft", 0, "")
             g2 == [g1 EXCEPT !.finalSummary = g.currentDraftRef,
                              !.processingState = "COMPLETED"]
             item == NewHistoryItem(g2, Append(run.file.name, PartialTag),
                                    g.currentDraftRef, run.sessionTokens)
         IN  Out(SaveItem(g2, item), Finish(run, "partial", error.message, 1))
    ELSE LET g1 == [addLog(g, "error", "critical", 0, error.message)
                        EXCEPT !.processingState = "ERROR"]
             item == NewHistoryItem(g1, run.file.name, g.currentDraftRef, run.sessionTokens)
         IN  Out(SaveItem(g1, item), Finish(run, "error", error.message, 0))

\* catch (error: any) { ... }
Catch(g, run, error) ==
    IF DraftRecoverable(g.currentDraftRef)
    THEN LET g1 == addLog(addLog(g, "warning", "recovered", 0, ""), "info", "rawDraft", 0, "")
             g2 == [g1 EXCEPT !.finalSummary = g.currentDraftRef,
                              !.processingState = "COMPLETED"]
             item == NewHistoryItem(g2, Append(run.file.name, PartialTag),
                                    g.currentDraftRef, run.sessionTokens)
         IN  Out(SaveItem(g2, item), Finish(run, "partial", error.message, 1))
    ELSE Out([addLog(g, "error", "critical", 0, error.message)
                  EXCEPT !.processingState = "ERROR"],
             Finish(run, "error", error.message, 0))

\* From "const combinedDraft = currentDraftRef.current" to the consolidation call.
AfterExtraction(g, run0) ==
    LET combinedDraft == g.currentDraftRef
        run == [run0 EXCEPT !.usable =
                   IF \E k \in 1..Len(run0.fragments) : NonBlank(run0.fragments[k])
                   THEN "yes" ELSE "no"]
    IN  IF TextLen(combinedDraft) = 0
        THEN Only({Catch(at.g, at.run, NoTextError) : at \in {Out(g, run)}})
        ELSE Out(addLog([g EXCEPT !.processingState = "POLISHING"],
                        "info", "consolidating", run.totalChunks, ""),
                 [run EXCEPT !.pc = "consolidate", !.combinedDraft = combinedDraft,
                             !.issued = @ \cup {"consolidate"}])

\* chunks.slice(i, i + MAX_CONCURRENT_REQUESTS), as the chunk indices it holds.
BatchOf(i, totalChunks) == i .. (Min(i + MAX_CONCURRENT_REQUESTS, totalChunks) - 1)

\* The head of the batch loop: the next batch's calls are issued, or the loop ends.
LoopHead(g, run) ==
    IF run.i < run.totalChunks
    THEN LET batch == BatchOf(run.i, run.totalChunks)
             g1 == [g EXCEPT !.logs = @ \cup {LogEntry("info", "analyzing", idx + 1, "") :
                                                 idx \in batch}]
         IN  Out(g1, [run EXCEPT !.pc = "extract", !.pending = batch,
                                 !.results = Rep(Unsettled, Cardinality(batch))])
    ELSE Only({AfterExtraction(at.g, at.run) : at \in {Out(g, run)}})

\* Results stored by their position in the batch instead of their chunk index.
AssignResultsByPosition(extractedSummaries, results) ==
    [k \in 1..Len(extractedSummaries) |->
        IF k <= Len(results) /\ TextLen(results[k].text) > 0
        THEN results[k].text ELSE extractedSummaries[k]]

\* results.forEach(res => { if (res.text) extractedSummaries[res.idx] = res.text; })
RECURSIVE AssignResults(_, _)
AssignResults(extractedSummaries, results) ==
    IF Len(results) = 0 THEN extractedSummaries
    ELSE LET res == Head(results)
         IN  AssignResults(IF TextLen(res.text) > 0
                           THEN [extractedSummaries EXCEPT ![res.idx + 1] = res.text]
                           ELSE extractedSummaries,
                           Tail(results))

\* Math.round(((i + batch.length) / chunks.length) * 60)
ExtractedPercent(completed, totalChunks) ==
    (2 * completed * EXTRACT_WEIGHT + totalChunks) \div (2 * totalChunks)

\* After Promise.all(batchPromises): results stored, Draft rebuilt, progress set,
\* then the loop goes on.
BatchEnd(g, run) ==
    LET extractedSummaries == AssignResults(run.extractedSummaries, run.results)
        completed == run.i + Len(run.results)
        g1 == [g EXCEPT !.currentDraftRef = JoinDraft(extractedSummaries),
                        !.progress = ExtractedPercent(completed, run.totalChunks)]
        run1 == [run EXCEPT !.extractedSummaries = extractedSummaries,
                            !.i = @ + MAX_CONCURRENT_REQUESTS,
                            !.results = <<>>]
    IN  Only({LoopHead(at.g, at.run) : at \in {Out(g1, run1)}})

\* A batch that goes on as soon as one of its calls has settled.
SettleChunkGoesOnAtFirst(g, run, res) ==
    LET run1 == [run EXCEPT !.results[res.idx - run.i + 1] = res,
                            !.pending = @ \ {res.idx},
                            !.fragments[res.idx + 1] = res.text,
                            !.raced = @ \/ (\E j \in run.pending : j < res.idx)]
    IN  Only({BatchEnd(at.g, at.run) : at \in {Out(g, run1)}})

\* One batch promise settles with { idx, text }; the last one of the batch lets
\* Promise.all resolve.
SettleChunk(g, run, res) ==
    LET run1 == [run EXCEPT !.results[res.idx - run.i + 1] = res,
                            !.pending = @ \ {res.idx},
                            !.fragments[res.idx + 1] = res.text,
                            !.raced = @ \/ (\E j \in run.pending : j < res.idx)]
    IN  IF run1.pending = {}
        THEN Only({BatchEnd(at.g, at.run) : at \in {Out(g, run1)}})
        ELSE Out(g, run1)

\* try { const response = await ai.models.generateContent(...) ... return { idx, text } }
ChunkResolved(g, run, idx, response) ==
    LET outputText == TextOf(response)
        g1 == [g EXCEPT !.sessionTokens = @ + UsageOf(response)]
    IN  SettleChunk(addLog(g1, "success", "extracted", idx + 1, ""), run,
                    [settled |-> TRUE, idx |-> idx, text |-> outputText])

\* A chunk call whose rejection is thrown on to the catch block of processBook.
ChunkRejectedRethrows(g, run, idx, err) == Catch(g, run, err)

\* catch (err: any) { addLog(...); return { idx: actualIdx, text: "" } }
ChunkRejected(g, run, idx, err) ==
    SettleChunk(addLog(g, "warning", "partFailed", idx + 1, err.message), run,
                [settled |-> TRUE, idx |-> idx, text |-> <<>>])

\* From the parsed text to the first batch.
Parsed(g, run, text) ==
    LET g1 == addLog(g, "success", "parsed", 0, "")
    IN  IF Len(text) < MIN_TEXT_LENGTH
        THEN Only({Catch(at.g, at.run, TooShortError) : at \in {Out(g1, run)}})
        ELSE LET chunks == smartSplitText(text, CHUNK_SIZE)
                 g2 == addLog([g1 EXCEPT !.processingState = "SUMMARIZING"],
                              "info", "chunking", Len(chunks), "")
                 run1 == [run EXCEPT !.totalChunks = Len(chunks), !.i = 0,
                                     !.extractedSummaries = Rep(<<>>, Len(chunks)),
                                     !.fragments = Rep(<<>>, Len(chunks))]
             IN  Only({LoopHead(at.g, at.run) : at \in {Out(g2, run1)}})

\* The consolidation call resolved: usage counted, progress 80, polish call issued.
Consolidated(g, run, response) ==
    LET g1 == [g EXCEPT !.sessionTokens = @ + UsageOf(response),
                        !.progress = CONSOLIDATED_PROGRESS]
        g2 == addLog(addLog(g1, "success", "consolidated", 0, ""), "info", "formatting", 0, "")
    IN  Out(g2, [run EXCEPT !.pc = "polish", !.issued = @ \cup {"polish"},
                            !.extractedSummaries = <<>>, !.fragments = <<>>,
                            !.raced = FALSE])

\* The polish call resolved: summary shown, record saved, COMPLETED, progress 100.
Polished(g, run, response) ==
    LET finalText == TextOf(response)
        usagePolish == UsageOf(response)
        g1 == addLog([g EXCEPT !.sessionTokens = @ + usagePolish, !.finalSummary = finalText],
                     "success", "finished", 0, "")
        item == NewHistoryItem(g1, run.file.name, finalText, usagePolish)
        g2 == SaveItem(g1, item)
    IN  Out([g2 EXCEPT !.processingState = "COMPLETED", !.progress = COMPLETED_PROGRESS],
            Finish(run, "completed", "", 1))

\* ------------------------------------------------------------------ actions

\* A continuation's outcome is committed as one step (out is a computed value).
Step(r, out) ==
    /\ Commit(out.g)
    /\ runs' = [runs EXCEPT ![r] = out.run]
    /\ UNCHANGED <<file, userEvents, split, alerted, timer, backups>>

Settled(r, out) == Step(r, out) /\ UNCHANGED chunksParsed

Started == {r \in RunIds : runs[r].pc # "none"}

\* The Start / RETRY button: processBook up to "await parseFile(file)".  The
\* object the View button leaves in file has no content to read (file.text is
\* no function), so parseFile rejects before the task of the click ends.
StartAnalysis ==
    /\ file # NoFile
    /\ isInteractionEnabled
    /\ Cardinality(Started) < MaxRuns
    /\ LET r == Cardinality(Started) + 1
           g == [Globals EXCEPT !.processingState = "PARSING",
                                !.logs = IF processingState = "ERROR" THEN {} ELSE @,
                                !.currentDraftRef = <<>>]
       IN  \E begun \in {Out(addLog(g, "info", "start", 0, ""),
                           [NoRun EXCEPT !.pc = "parse", !.file = file,
                                         !.processingState = processingState,
                                         !.sessionTokens = sessionTokens])} :
               \E out \in {IF file.real THEN begun
                           ELSE Catch(begun.g, begun.run, ParseError)} :
                   Settled(r, out)

\* handleFileChange, reachable while the file input is not disabled.
SelectFile(f) ==
    /\ isInteractionEnabled
    /\ userEvents < MaxUserEvents
    /\ userEvents' = userEvents + 1
    /\ file' = f
    /\ finalSummary' = <<>>
    /\ logs' = {}
    /\ processingState' = "IDLE"
    /\ progress' = 0
    /\ currentDraftRef' = <<>>
    /\ timer' = [timer EXCEPT !.startTime = Null, !.elapsedSeconds = 0,
                              !.estimatedTotalDuration = Null]
    /\ UNCHANGED <<history, sessionTokens, nextId, chunksParsed, runs, split, alerted,
                   backups>>

\* The View button of a history item (the history tab is always reachable).
View(k) ==
    /\ userEvents < MaxUserEvents
    /\ userEvents' = userEvents + 1
    /\ finalSummary' = history[k].summary
    /\ file' = [name |-> history[k].fileName, real |-> FALSE]
    /\ processingState' = "COMPLETED"
    /\ UNCHANGED <<logs, progress, currentDraftRef, history, sessionTokens, nextId,
                   chunksParsed, runs, split, alerted, timer, backups>>

\* parseFile(file) resolves with a text (only a picked file has content).
ParseResolve(r) ==
    /\ runs[r].pc = "parse"
    /\ runs[r].file.real
    /\ \E text \in ParseTexts :
           LET n == IF Len(text) < MIN_TEXT_LENGTH THEN 0
                    ELSE Len(smartSplitText(text, CHUNK_SIZE))
           IN  /\ chunksParsed + n <= MaxTotalChunks
               /\ chunksParsed' = chunksParsed + n
               /\ \E out \in {Parsed(Globals, runs[r], text)} : Step(r, out)

\* parseFile(file) rejects.
ParseReject(r) ==
    /\ runs[r].pc = "parse"
    /\ \E out \in {Catch(Globals, runs[r], ParseError)} : Settled(r, out)

\* The tokens a resolved call reported are recorded in the invocation's
\* "tokens" whatever the handler does.
Counted(r, out, response) ==
    [out EXCEPT !.run.tokens = runs[r].tokens + UsageOf(response)]

ChunkResolve(r) ==
    /\ runs[r].pc = "extract"
    /\ \E idx \in runs[r].pending, response \in ExtractResponses :
           \E out \in {ChunkResolved(Globals, runs[r], idx, response)} :
               \E noted \in {Counted(r, out, response)} : Settled(r, noted)

\* The rejection is recorded in the invocation's "failed" whatever the handler does.
ChunkReject(r) ==
    /\ runs[r].pc = "extract"
    /\ \E idx \in runs[r].pending, err \in TransformErrors :
           \E out \in {ChunkRejected(Globals, runs[r], idx, err)} :
               \E noted \in {[out EXCEPT !.run.failed =
                                 runs[r].failed \cup {[idx |-> idx, status |-> err.status]}]} :
                   Settled(r, noted)

ConsolidateResolve(r) ==
    /\ runs[r].pc = "consolidate"
    /\ \E response \in StageResponses :
           \E out \in {Consolidated(Globals, runs[r], response)} :
               \E noted \in {Counted(r, out, response)} : Settled(r, noted)

ConsolidateReject(r) ==
    /\ runs[r].pc = "consolidate"
    /\ \E err \in TransformErrors :
           \E out \in {Catch(Globals, runs[r], err)} : Settled(r, out)

PolishResolve(r) ==
    /\ runs[r].pc = "polish"
    /\ \E response \in StageResponses :
           \E out \in {Polished(Globals, runs[r], response)} :
               \E noted \in {Counted(r, out, response)} : Settled(r, noted)

PolishReject(r) ==
    /\ runs[r].pc = "polish"
    /\ \E err \in TransformErrors :
           \E out \in {Catch(Globals, runs[r], err)} : Settled(r, out)

\* A promise processBook awaits settles.
Settle(r) ==
    \/ ParseResolve(r)
    \/ ParseReject(r)
    \/ ChunkResolve(r)
    \/ ChunkReject(r)
    \/ ConsolidateResolve(r)
    \/ ConsolidateReject(r)
    \/ PolishResolve(r)
    \/ PolishReject(r)

Next ==
    \/ StartAnalysis
    \/ \E f \in PickableFiles : SelectFile(f)
    \/ \E k \in 1..Len(history) : View(k)
    \/ \E r \in RunIds : Settle(r)

Spec == Init /\ [][Next]_vars


\* Every promise an invocation awaits settles in the end.
FairSpec == Spec /\ \A r \in RunIds : WF_vars(Settle(r))

(***************************************************************************)
(* The history tab: backups imported and records deleted, among the steps  *)
(* of the runs.                                                            *)
(***************************************************************************)

\* A JSON value read as json.version: absent, a number or a string.
Absent == [type |-> "undefined", number |-> 0, string |-> ""]
JsonNumber(n) == [type |-> "number", number |-> n, string |-> ""]
JsonString(t) == [type |-> "string", number |-> 0, string |-> t]

\* The value counts as true in "json.version && ...".
Truthy(v) ==
    CASE v.type = "undefined" -> FALSE
      [] v.type = "number" -> v.number # 0
      [] v.type = "string" -> v.string # ""

\* A JSON value read as json.items: a list of records, or an object.
JsonList(items) == [isArray |-> TRUE, elements |-> items]
JsonObject == [isArray |-> FALSE, elements |-> <<>>]

\* Records a backup file may hold: a record with the identifier of the stored
\* one and another summary, and two records with one identifier that no run
\* gives, the first dated after every save of the behaviour.
StoredItemEdited == [StoredItem EXCEPT !.summary = <<"O2">>]
ForeignItem ==
    [id |-> -1, timestamp |-> MaxRuns + 2, fileName |-> <<"far.txt">>, summary |-> <<"F">>,
     tokenUsage |-> 0]
ForeignItemTwin == [ForeignItem EXCEPT !.timestamp = 0, !.summary = <<"F2">>]

\* What FileReader hands to onload: text JSON.parse throws on, or the version
\* and the items of the value parsed.
BackupFile(parses, version, items) == [parses |-> parses, version |-> version, items |-> items]

BackupFiles ==
    {BackupFile(FALSE, Absent, JsonObject),
     BackupFile(TRUE, Absent, JsonList(<<ForeignItem>>)),
     BackupFile(TRUE, JsonString("x"), JsonList(<<ForeignItem>>)),
     BackupFile(TRUE, JsonNumber(1), JsonObject),
     BackupFile(TRUE, JsonNumber(1), JsonList(<<StoredItemEdited>>)),
     BackupFile(TRUE, JsonNumber(1), JsonList(<<ForeignItem>>)),
     BackupFile(TRUE, JsonNumber(1), JsonList(<<ForeignItemTwin, ForeignItem>>))}

\* .sort((a,b) => b.timestamp - a.timestamp): by timestamp, latest first,
\* records of one timestamp in the order they had.
RECURSIVE SortByTimestamp(_)
SortByTimestamp(items) ==
    IF items = <<>> THEN <<>>
    ELSE LET item == Head(items)
             rest == SortByTimestamp(Tail(items))
             later == Cardinality({k \in 1..Len(rest) : rest[k].timestamp > item.timestamp})
         IN  SubSeq(rest, 1, later) \o <<item>> \o SubSeq(rest, later + 1, Len(rest))

\* A merge that adds every imported record, whatever identifiers history holds.
MergeBackupAddsAll(prev, items) == SortByTimestamp(items \o prev)

\* A merge in which an imported record takes the place of the record of its identifier.
MergeBackupOverwrites(prev, items) ==
    LET importedIds == {items[k].id : k \in 1..Len(items)}
        kept == SelectSeq(prev, LAMBDA i : i.id \notin importedIds)
    IN  SortByTimestamp(items \o kept)

\* setHistory(prev => { existingIds; newItems; return [...newItems, ...prev].sort(...) })
MergeBackup(prev, items) ==
    LET existingIds == {prev[k].id : k \in 1..Len(prev)}
        newItems == SelectSeq(items, LAMBDA i : i.id \notin existingIds)
    IN  SortByTimestamp(newItems \o prev)

RestoreMsg == "restoreMsg"
InvalidFormatMsg == "Invalid JSON format"
ParseFailedMsg == "Error parsing JSON"

\* reader.onload: the history and the alert it leaves.
OnBackupLoaded(prev, backup) ==
    IF ~backup.parses
    THEN [history |-> prev, alerted |-> ParseFailedMsg]
    ELSE IF Truthy(backup.version) /\ backup.items.isArray
         THEN [history |-> MergeBackup(prev, backup.items.elements), alerted |-> RestoreMsg]
         ELSE [history |-> prev, alerted |-> InvalidFormatMsg]

\* handleImportBackup and the onload of its reader (the handler itself, which
\* starts the read, changes nothing).
BackupLoaded(backup) ==
    /\ userEvents < MaxUserEvents
    /\ userEvents' = userEvents + 1
    /\ \E loaded \in {OnBackupLoaded(history, backup)} :
          /\ history' = loaded.history
          /\ alerted' = loaded.alerted
    /\ UNCHANGED <<file, processingState, logs, finalSummary, progress, currentDraftRef,
                   sessionTokens, nextId, chunksParsed, runs, split, timer>>

ImportBackup(backup) == BackupLoaded(backup) /\ UNCHANGED backups

\* handleDeleteHistory(id), the question confirmed (declined, nothing changes).
HistoryDeleted(id) ==
    /\ userEvents < MaxUserEvents
    /\ userEvents' = userEvents + 1
    /\ history' = SelectSeq(history, LAMBDA item : item.id # id)
    /\ UNCHANGED <<file, processingState, logs, finalSummary, progress, currentDraftRef,
                   sessionTokens, nextId, chunksParsed, runs, split, alerted, timer>>

DeleteHistory(id) == HistoryDeleted(id) /\ UNCHANGED backups

HistoryNext ==
    \/ Next
    \/ \E backup \in BackupFiles : ImportBackup(backup)
    \/ \E k \in 1..Len(history) : DeleteHistory(history[k].id)

HistorySpec == Init /\ [][HistoryNext]_vars

(***************************************************************************)
(* The backup files followed on their own: exports, imports and deletions  *)
(* on a history as an earlier session may have left it.                    *)
(***************************************************************************)

\* JSON.stringify(backup, null, 2), for the items: of each record its
\* properties, in the order the record was built with.
StringifyItems(items) ==
    [k \in 1..Len(items) |->
        <<items[k].id, items[k].timestamp, items[k].fileName, items[k].summary,
          items[k].tokenUsage>>]

\* JSON.parse, for the items of a text JSON.stringify wrote.
ParseItems(text) ==
    [k \in 1..Len(text) |->
        [id |-> text[k][1], timestamp |-> text[k][2], fileName |-> text[k][3],
         summary |-> text[k][4], tokenUsage |-> text[k][5]]]

\* The file handleExportBackup downloads ({ version: 1, createdAt, items:
\* history }), as the reader of an import will hand it to onload.
ExportedFile(items) ==
    BackupFile(TRUE, JsonNumber(1), JsonList(ParseItems(StringifyItems(items))))

\* The histories the mount effect may find: those of StoredHistories, and the
\* one left by a session in which a record dated later was imported before
\* the run of the stored record was saved.
KeptHistories == StoredHistories \cup {<<StoredItem, ForeignItem>>}

BackupInit ==
    /\ file = NoFile
    /\ processingState = "IDLE"
    /\ logs = {}
    /\ finalSummary = <<>>
    /\ progress = 0
    /\ currentDraftRef = <<>>
    /\ history \in KeptHistories
    /\ sessionTokens = 0
    /\ nextId = 1
    /\ userEvents = 0
    /\ chunksParsed = 0
    /\ runs = [r \in RunIds |-> NoRun]
    /\ split = NoSplit
    /\ alerted = ""
    /\ timer = NoTimer
    /\ backups = NoBackups

\* handleExportBackup, whose button is disabled while history is empty.
ExportBackup ==
    /\ Len(history) > 0
    /\ backups' = [backups EXCEPT !.exported = <<ExportedFile(history)>>]
    /\ UNCHANGED <<file, processingState, logs, finalSummary, progress, currentDraftRef,
                   history, sessionTokens, nextId, userEvents, chunksParsed, runs, split,
                   alerted, timer>>

\* An import, the file imported being recorded.
ImportFollowed(backup) ==
    /\ BackupLoaded(backup)
    /\ backups' = [backups EXCEPT !.imported = <<backup>>,
                                  !.repeats = IF backups.imported = <<backup>>
                                              THEN @ + 1 ELSE 1]

\* A deletion: the next import is not the second in a row.
DeleteFollowed(id) ==
    /\ HistoryDeleted(id)
    /\ backups' = [backups EXCEPT !.imported = <<>>, !.repeats = 0]

\* The files the user can choose for an import: those of BackupFiles and the
\* one exported last.
ImportableFiles == BackupFiles \cup {backups.exported[k] : k \in 1..Len(backups.exported)}

BackupNext ==
    \/ ExportBackup
    \/ \E backup \in ImportableFiles : ImportFollowed(backup)
    \/ \E k \in 1..Len(history) : DeleteFollowed(history[k].id)

BackupSpec == BackupInit /\ [][BackupNext]_vars

(***************************************************************************)
(* The timer statistics followed on their own: the clock, the statements   *)
(* of one invocation of processBook at a time that read it or set the      *)
(* phase, the interval, and the file input and View button beside them.    *)
(***************************************************************************)

\* Math.ceil(a / b) for b > 0.
CeilDiv(a, b) == -((-a) \div b)

\* Math.ceil(text.length * 0.00048)
InitialEstimate(length) ==
    CeilDiv(length * SECONDS_PER_ESTIMATE_UNIT, CHARS_PER_ESTIMATE_UNIT)

\* An update of the estimate that leaves the consolidation overhead out.
NewTotalEstimateWithoutOverhead(elapsedMs, chunksCompleted, totalChunks) ==
    LET chunksRemaining == totalChunks - chunksCompleted
    IN  CeilDiv(elapsedMs * (chunksCompleted + chunksRemaining),
                MS_PER_SECOND * chunksCompleted)

\* const newTotalEstimate = Math.ceil(timeElapsedSoFar + (avgTimePerChunk *
\* chunksRemaining) + overheadForConsolidation), timeElapsedSoFar being
\* elapsedMs / 1000, avgTimePerChunk timeElapsedSoFar / chunksCompleted and
\* the overhead 1.5 * avgTimePerChunk: the quotient is taken once, exactly.
NewTotalEstimate(elapsedMs, chunksCompleted, totalChunks) ==
    LET chunksRemaining == totalChunks - chunksCompleted
    IN  CeilDiv(elapsedMs * (2 * chunksCompleted + 2 * chunksRemaining + 3),
                2 * MS_PER_SECOND * chunksCompleted)

\* The lengths parseFile may give the text: the shortest accepted, and one for
\* which the first estimate is above its floor.
TimedLengths == {MIN_TEXT_LENGTH, CHARS_PER_ESTIMATE_UNIT}

\* What the clock may gain between two readings: a second and a half, or
\* twelve seconds.
ClockGains == {(3 * MS_PER_SECOND) \div 2, 12 * MS_PER_SECOND}

remainingDisplayUnclamped ==
    IF timer.estimatedTotalDuration.isNull THEN Null
    ELSE Number(timer.estimatedTotalDuration.value - timer.elapsedSeconds)

\* const remainingDisplay = estimatedTotalDuration !== null ? Math.max(0, ...) : null
remainingDisplay ==
    IF timer.estimatedTotalDuration.isNull THEN Null
    ELSE Number(Max(0, timer.estimatedTotalDuration.value - timer.elapsedSeconds))

\* The statements followed here set the phase and the timer statistics.
TimerOnly ==
    UNCHANGED <<file, logs, finalSummary, progress, currentDraftRef, history,
                sessionTokens, nextId, userEvents, chunksParsed, runs, split, alerted,
                backups>>

TimerInit ==
    /\ file = NoFile
    /\ processingState = "IDLE"
    /\ logs = {}
    /\ finalSummary = <<>>
    /\ progress = 0
    /\ currentDraftRef = <<>>
    /\ history \in StoredHistories
    /\ sessionTokens = 0
    /\ nextId = 1
    /\ userEvents = 0
    /\ chunksParsed = 0
    /\ runs = [r \in RunIds |-> NoRun]
    /\ split = NoSplit
    /\ alerted = ""
    /\ timer = NoTimer
    /\ backups = NoBackups

\* Time passes: Date.now() never reads less than it did.
ClockAdvance ==
    /\ \E gain \in ClockGains :
          /\ timer.now + gain <= MaxSeconds * MS_PER_SECOND
          /\ timer' = [timer EXCEPT !.now = @ + gain]
    /\ UNCHANGED processingState
    /\ TimerOnly

\* The Start / RETRY button: const startT = Date.now(); setStartTime(startT);
\* setProcessingState(PARSING).  The object the View button leaves in file has
\* nothing to read: the run fails before the task of the click ends.
TimerStart ==
    /\ file # NoFile
    /\ isInteractionEnabled
    /\ timer.pc \in {"off", "done"}
    /\ timer.begun < MaxRuns
    /\ timer' = [timer EXCEPT !.pc = IF file.real THEN "parse" ELSE "done",
                              !.startT = timer.now,
                              !.startTime = Number(timer.now), !.begun = @ + 1,
                              !.textLength = 0, !.i = 0, !.totalChunks = 0,
                              !.chunksCompleted = 0]
    /\ processingState' = IF file.real THEN "PARSING" ELSE "ERROR"
    /\ TimerOnly

\* The text is parsed: the first estimate is set and the text is cut, into no
\* chunk at all (the loop is passed over and the run fails) or into some.
TimerParsed ==
    /\ timer.pc = "parse"
    /\ \E length \in TimedLengths, totalChunks \in 0..MaxChunks :
          /\ timer' = [timer EXCEPT
                          !.estimatedTotalDuration =
                              Number(Max(MIN_ESTIMATE, InitialEstimate(length))),
                          !.textLength = length,
                          !.totalChunks = totalChunks, !.i = 0,
                          !.pc = IF totalChunks = 0 THEN "done" ELSE "batch"]
          /\ processingState' = IF totalChunks = 0 THEN "ERROR" ELSE "SUMMARIZING"
    /\ TimerOnly

\* parseFile rejects, or the text is too short: the run ends.
TimerParseFailed ==
    /\ timer.pc = "parse"
    /\ timer' = [timer EXCEPT !.pc = "done"]
    /\ processingState' = "ERROR"
    /\ TimerOnly

\* A batch has settled: the estimate is renewed from the time its chunks took.
\* After the last batch the draft is consolidated, or it is empty and the run
\* fails.
TimerBatchEnd ==
    /\ timer.pc = "batch"
    /\ LET batchLength == Min(MAX_CONCURRENT_REQUESTS, timer.totalChunks - timer.i)
           chunksCompleted == timer.i + batchLength
           last == ~(timer.i + MAX_CONCURRENT_REQUESTS < timer.totalChunks)
       IN  \E newTotalEstimate \in {NewTotalEstimate(timer.now - timer.startT,
                                                     chunksCompleted, timer.totalChunks)} :
              \E empty \in IF last THEN BOOLEAN ELSE {FALSE} :
                 /\ timer' = [timer EXCEPT
                                 !.estimatedTotalDuration = Number(newTotalEstimate),
                                 !.chunksCompleted = chunksCompleted,
                                 !.i = @ + MAX_CONCURRENT_REQUESTS,
                                 !.pc = IF ~last THEN "batch"
                                        ELSE IF empty THEN "done" ELSE "stages"]
                 /\ processingState' = IF ~last THEN processingState
                                       ELSE IF empty THEN "ERROR" ELSE "POLISHING"
    /\ TimerOnly

\* The consolidation and polish calls are over, one way or the other.
TimerStagesEnd ==
    /\ timer.pc = "stages"
    /\ timer' = [timer EXCEPT !.pc = "done"]
    /\ processingState' \in {"COMPLETED", "ERROR"}
    /\ TimerOnly

\* The interval of the Timer Tick effect, which runs while the phase is
\* neither IDLE nor COMPLETED nor ERROR and startTime is set.
IntervalTick ==
    /\ ~isInteractionEnabled
    /\ ~timer.startTime.isNull
    /\ timer' = [timer EXCEPT !.elapsedSeconds =
                                  (timer.now - timer.startTime.value) \div MS_PER_SECOND]
    /\ UNCHANGED processingState
    /\ TimerOnly

TimerNext ==
    \/ ClockAdvance
    \/ TimerStart
    \/ TimerParsed
    \/ TimerParseFailed
    \/ TimerBatchEnd
    \/ TimerStagesEnd
    \/ IntervalTick
    \/ \E f \in PickableFiles : SelectFile(f)
    \/ \E k \in 1..Len(history) : View(k)

TimerSpec == TimerInit /\ [][TimerNext]_vars

(***************************************************************************)
(* smartSplitText followed on its own, one iteration of its loop a step,   *)
(* on texts written out character by character.                            *)
(***************************************************************************)

\* A letter, a sentence boundary that is not whitespace, a space, and the
\* boundary character that is whitespace too.
Alphabet == {"a", ".", " ", "\n"}

TextsOfLen(n) == [1..n -> Alphabet]

\* Every text of up to MaxTextLen characters.
ShortTexts == UNION {TextsOfLen(n) : n \in 0..MaxTextLen}

\* The smallest maxSize whose lookback window is `lookback` characters long.
SizeWithLookback(lookback) == (lookback * 100) \div LOOKBACK_PERCENT

\* A text of `len` characters: letters, then every ending of MaxTextLen characters.
TextsEnding(len) == {Rep("a", len - MaxTextLen) \o w : w \in TextsOfLen(MaxTextLen)}

\* A text of 2 * maxSize characters: letters, but for MaxTextLen characters
\* around the cut at maxSize, which take every value.
TextsOfTwoSizes(maxSize) == {t \o Rep("a", maxSize - 1) : t \in TextsEnding(maxSize + 1)}

\* The calls followed: short texts under sizes whose lookback window is empty,
\* and, for each longer window, texts one character longer than maxSize (the
\* first cut and its whole window fall in the varying ending), texts one
\* character shorter than maxSize, and texts twice as long as maxSize.
SplitInputs ==
    {[text |-> t, maxSize |-> m] : t \in ShortTexts, m \in 1..MaxSmallSize}
    \cup UNION {{[text |-> t, maxSize |-> SizeWithLookback(k)] :
                    t \in TextsEnding(SizeWithLookback(k) + 1)
                          \cup TextsEnding(SizeWithLookback(k) - 1)
                          \cup TextsOfTwoSizes(SizeWithLookback(k))} : k \in 1..MaxLookback}

SplitAdvanceSkipsOne(sp, endIndex, chunk) ==
    [sp EXCEPT !.chunks = IF Len(chunk) > 0 THEN Append(@, chunk) ELSE @,
               !.startIndex = endIndex + 1]

SplitAdvanceKeepsEmpty(sp, endIndex, chunk) ==
    [sp EXCEPT !.chunks = Append(@, chunk),
               !.startIndex = endIndex]

\* The end of the loop body: the chunk is pushed unless it is empty, and the
\* next slice starts where this one ended.
SplitAdvance(sp, endIndex, chunk) ==
    [sp EXCEPT !.chunks = IF Len(chunk) > 0 THEN Append(@, chunk) ELSE @,
               !.startIndex = endIndex]

AppUntouched ==
    UNCHANGED <<file, processingState, logs, finalSummary, progress, currentDraftRef,
                history, sessionTokens, nextId, userEvents, chunksParsed, runs, alerted,
                backups>>

SplitInit ==
    /\ file = NoFile
    /\ processingState = "IDLE"
    /\ logs = {}
    /\ finalSummary = <<>>
    /\ progress = 0
    /\ currentDraftRef = <<>>
    /\ history = <<>>
    /\ sessionTokens = 0
    /\ nextId = 1
    /\ userEvents = 0
    /\ chunksParsed = 0
    /\ runs = [r \in RunIds |-> NoRun]
    /\ alerted = ""
    /\ timer = NoTimer
    /\ backups = NoBackups
    /\ \E in \in SplitInputs :
          split = [NoSplit EXCEPT !.pc = "loop", !.text = in.text, !.maxSize = in.maxSize]

\* The loop condition holds: the body runs once.  The slice it cut is recorded
\* by its startIndex and the startIndex the body left.
SplitIterate ==
    /\ split.pc = "loop"
    /\ split.startIndex < Len(split.text)
    /\ \E endIndex \in {SplitEnd(split.text, split.maxSize, split.startIndex)} :
          \E slice \in {Slice(split.text, split.startIndex, endIndex)} :
             \E sp \in {SplitAdvance(split, endIndex, Trim(slice))} :
                split' = [sp EXCEPT !.slices = Append(@, [from |-> split.startIndex,
                                                          to |-> sp.startIndex])]
    /\ AppUntouched
    /\ UNCHANGED timer

\* The loop condition fails: chunks is returned.
SplitReturn ==
    /\ split.pc = "loop"
    /\ ~(split.startIndex < Len(split.text))
    /\ split' = [split EXCEPT !.pc = "done"]
    /\ AppUntouched
    /\ UNCHANGED timer

SplitNext == SplitIterate \/ SplitReturn

SplitSpec == SplitInit /\ [][SplitNext]_vars

\* The loop is synchronous code: it keeps running until its condition fails.
FairSplitSpec == SplitSpec /\ WF_vars(SplitNext)

\* ------------------------------------------------------------------ claims

Active(r) == runs[r].pc \notin {"none", "done"}

\* Transform calls in flight: the chunk calls of the batches and the stage calls.
InFlightOf(run) ==
    Cardinality(run.pending) + (IF run.pc \in {"consolidate", "polish"} THEN 1 ELSE 0)

RECURSIVE InFlightUpTo(_)
InFlightUpTo(n) == IF n = 0 THEN 0 ELSE InFlightOf(runs[n]) + InFlightUpTo(n - 1)

InFlight == InFlightUpTo(MaxRuns)

\* C1: a stage call (consolidation or polish) that fails after extraction left a
\* Draft of more than 500 characters ends the run as partial: COMPLETED, the
\* summary shown is that Draft, one record is saved with that Draft and the
\* file name tagged " (PARTIAL)", and a warning is logged.
C1_PartialRecovery ==
    [][\A r \in RunIds :
          (/\ runs[r].pc \in {"consolidate", "polish"}
           /\ TextLen(runs[r].combinedDraft) > PARTIAL_MIN_LENGTH
           /\ runs'[r].pc = "done"
           /\ runs'[r].exit # "completed")
          => /\ runs'[r].exit = "partial"
             /\ processingState' = "COMPLETED"
             /\ finalSummary' = runs[r].combinedDraft
             /\ runs'[r].saved = 1
             /\ Len(history') = Len(history) + 1
             /\ history'[1].summary = runs[r].combinedDraft
             /\ history'[1].fileName = Append(runs[r].file.name, PartialTag)
             /\ \E e \in logs' : e.type = "warning" /\ e.tag = "recovered"]_vars

\* C2: a run whose extraction left no fragment that is non-empty after trimming
\* (every call failed, or there was no usable answer) has ended in ERROR, has
\* issued no consolidation or polish call and has saved no record.
C2_NoFragmentIsFatal ==
    \A r \in RunIds :
        runs[r].usable = "no"
        => /\ runs[r].pc = "done"
           /\ runs[r].exit = "error"
           /\ runs[r].issued = {}
           /\ runs[r].saved = 0

\* C3: a run that ends in COMPLETED (polished or partial) shows and saves a
\* summary that is not empty.
C3_NeverEmptySummary ==
    [][\A r \in RunIds :
          (Active(r) /\ runs'[r].pc = "done" /\ runs'[r].exit \in {"completed", "partial"})
          => /\ TextLen(finalSummary') > 0
             /\ TextLen(history'[1].summary) > 0]_vars

\* C4: no step of a started run lowers the progress percentage, and the
\* percentage stays in [0,100].
C4_ProgressMonotone ==
    [][\A r \in RunIds :
          (Active(r) /\ runs'[r] # runs[r])
          => progress' >= progress /\ progress' \in 0..100]_vars

\* C5: every started run ends (COMPLETED, partial or ERROR) once its calls
\* settle; an exception leaves the phase COMPLETED (partial) or ERROR; and with
\* no run in flight the phase is never PARSING, CHUNKING, SUMMARIZING or POLISHING.
C5_RunsTerminate ==
    /\ \A r \in RunIds :
          (runs[r].pc # "none")
              ~> (runs[r].pc = "done" /\ runs[r].exit \in {"completed", "partial", "error"})
    /\ [][\A r \in RunIds :
             (Active(r) /\ runs'[r].pc = "done" /\ runs'[r].exit # "completed")
             => processingState' = (IF runs'[r].exit = "partial" THEN "COMPLETED" ELSE "ERROR")]_vars
    /\ []((\A r \in RunIds : ~Active(r)) => processingState \in {"IDLE", "COMPLETED", "ERROR"})

C5_Witness ==
    \E r \in RunIds :
        /\ runs[r].pc = "done"
        /\ runs[r].exit = "error"
        /\ runs[r].error = TransientError.message
        /\ processingState = "ERROR"

\* C6: at most MAX_CONCURRENT_REQUESTS transform calls are in flight.
C6_InFlightBound == InFlight <= MAX_CONCURRENT_REQUESTS

\* A batch of run r has just been stored (Promise.all resolved and the loop went on).
BatchEnded(r) ==
    /\ runs[r].pc = "extract"
    /\ runs'[r].pc \in {"extract", "consolidate"}
    /\ runs'[r].i > runs[r].i

\* C7: when a batch has been stored, the result collection has one entry per
\* chunk index, the entry of every chunk processed so far is the fragment its
\* call produced (empty for a failed call), the others are still empty, and the
\* Draft is the one built from that collection, which is the Draft the
\* consolidation call is given after the last batch: nothing depends on the
\* order in which the calls of the batch settled.
C7_ResultsByIndex ==
    [][\A r \in RunIds :
          BatchEnded(r)
          => LET run == runs'[r]
                 processed == Min(run.i, run.totalChunks)
             IN  /\ Len(run.extractedSummaries) = run.totalChunks
                 /\ \A k \in 1..processed : run.extractedSummaries[k] = run.fragments[k]
                 /\ \A k \in (processed + 1)..run.totalChunks : run.extractedSummaries[k] = <<>>
                 /\ currentDraftRef' = JoinDraft(run.extractedSummaries)
                 /\ run.pc = "consolidate" => run.combinedDraft = currentDraftRef']_vars

C7_Witness ==
    \E r \in RunIds :
        /\ runs[r].pc = "consolidate"
        /\ runs[r].totalChunks = 3
        /\ runs[r].raced
        /\ runs[r].extractedSummaries = <<BigText, <<" ">>, BigText>>
        /\ runs[r].fragments = runs[r].extractedSummaries

\* The chunk calls of run r rejected by this step.
RejectedNow(r) == runs'[r].failed \ runs[r].failed

\* C8: a chunk call that is rejected adds no tokens, logs a warning for its
\* part, leaves an empty fragment, leaves the other calls of its batch in
\* flight, lets the next batch start when it was the last of its batch, and
\* ends the run in ERROR only when no fragment at all is usable.
C8_ChunkFailureIsLocal ==
    [][\A r \in RunIds : \A f \in RejectedNow(r) :
          /\ sessionTokens' = sessionTokens
          /\ \E e \in logs' : e.type = "warning" /\ e.tag = "partFailed" /\ e.part = f.idx + 1
          /\ runs'[r].pc \in {"extract", "consolidate"} => runs'[r].fragments[f.idx + 1] = <<>>
          /\ runs[r].pending # {f.idx}
                => runs'[r].pc = "extract" /\ runs'[r].pending = runs[r].pending \ {f.idx}
          /\ (runs[r].pending = {f.idx} /\ runs[r].i + MAX_CONCURRENT_REQUESTS < runs[r].totalChunks)
                => /\ runs'[r].pc = "extract"
                   /\ runs'[r].pending = BatchOf(runs[r].i + MAX_CONCURRENT_REQUESTS,
                                                 runs[r].totalChunks)
          /\ runs'[r].pc = "done"
                => /\ runs'[r].error = NoTextError.message
                   /\ \A k \in 1..runs[r].totalChunks :
                          k # f.idx + 1 => ~NonBlank(runs[r].fragments[k])]_vars

C8_Witness ==
    \E r \in RunIds :
        /\ runs[r].pc = "extract"
        /\ runs[r].i = MAX_CONCURRENT_REQUESTS
        /\ runs[r].pending # {}
        /\ \E f \in runs[r].failed : f.idx = 0 /\ f.status = TransientError.status
        /\ processingState = "SUMMARIZING"

\* The message of a run ended by an invalid credential.
AuthMessage == "Invalid API Key or Access Denied."

\* C9: a run one of whose chunk calls was rejected with a 401/403 status has
\* ended in ERROR with the authentication message, and no run that caught an
\* authentication error ended as partial.
C9_AuthFailureIsFatal ==
    \A r \in RunIds :
        /\ (\E f \in runs[r].failed : f.status \in {401, 403})
              => /\ runs[r].pc = "done"
                 /\ runs[r].exit = "error"
                 /\ runs[r].error = AuthMessage
        /\ runs[r].error = AuthError.message => runs[r].exit = "error"

\* The Draft the fragments call for: the fragments with a character other than
\* white space, in index order, with the delimiter between two of them.
RECURSIVE ExpectedDraft(_, _)
ExpectedDraft(fragments, draft) ==
    IF fragments = <<>> THEN draft
    ELSE LET f == Head(fragments)
             blank == \A k \in 1..Len(f) : IsSpace(f[k])
         IN  ExpectedDraft(Tail(fragments),
                           IF blank THEN draft
                           ELSE IF draft = <<>> THEN f
                           ELSE draft \o DraftDelimiter \o f)

\* C10: when a batch has been stored the Draft is the ordered join of the
\* fragments that are non-empty after trimming; with two chunks, chunk 0 failed
\* and chunk 1 answered B, the collection is ["", B] and the Draft is B; and a
\* run that ends because nothing usable was extracted leaves an empty Draft.
C10_DraftIsOrderedJoin ==
    [][\A r \in RunIds :
          /\ BatchEnded(r)
                => /\ currentDraftRef' = ExpectedDraft(runs'[r].fragments, <<>>)
                   /\ (/\ runs'[r].totalChunks = 2
                       /\ \E f \in runs'[r].failed : f.idx = 0
                       /\ NonBlank(runs'[r].fragments[2]))
                         => /\ runs'[r].extractedSummaries = <<<<>>, runs'[r].fragments[2]>>
                            /\ currentDraftRef' = runs'[r].fragments[2]
          /\ (runs[r].pc = "extract" /\ runs'[r].pc = "done")
                => currentDraftRef' = <<>>]_vars

C10_Witness ==
    \E r \in RunIds :
        /\ runs[r].pc = "consolidate"
        /\ runs[r].totalChunks = 2
        /\ \E f \in runs[r].failed : f.idx = 0
        /\ runs[r].extractedSummaries = <<<<>>, BigText>>
        /\ runs[r].combinedDraft = BigText
        /\ currentDraftRef = BigText

\* setProgress(70): the progress the earlier version sets when it skips the
\* consolidation of a single chunk.
SINGLE_CHUNK_PROGRESS == 70

\* C11: a run whose document gave exactly one chunk goes from extraction
\* straight to the polish call: no consolidation call is issued, and progress
\* is 70 when the polish call is issued.
C11_SingleChunkSkipsConsolidation ==
    [][\A r \in RunIds :
          (/\ runs[r].pc = "extract"
           /\ runs[r].totalChunks = 1
           /\ runs'[r].pc \notin {"extract", "done"})
          => /\ runs'[r].pc = "polish"
             /\ "consolidate" \notin runs'[r].issued
             /\ progress' = SINGLE_CHUNK_PROGRESS]_vars

\* C12: a run whose parse fails, or whose text is shorter than 100 characters,
\* ends at once in ERROR: the phase is ERROR, no call was issued, no record is
\* saved and nothing is recovered.
C12_ParseFailureIsFatal ==
    [][\A r \in RunIds :
          (/\ runs[r].pc = "parse"
           /\ runs'[r].pc = "done"
           /\ runs'[r].error \in {ParseError.message, TooShortError.message})
          => /\ runs'[r].exit = "error"
             /\ processingState' = "ERROR"
             /\ runs'[r].issued = {}
             /\ runs'[r].saved = 0
             /\ history' = history
             /\ finalSummary' = finalSummary]_vars

\* The place of a phase on the way PARSING, CHUNKING, SUMMARIZING, POLISHING,
\* COMPLETED (ERROR may follow any phase of a run).
PhaseRank(phase) ==
    CASE phase = "IDLE" -> 0
      [] phase = "PARSING" -> 1
      [] phase = "CHUNKING" -> 2
      [] phase = "SUMMARIZING" -> 3
      [] phase = "POLISHING" -> 4
      [] phase = "COMPLETED" -> 5
      [] phase = "ERROR" -> 5

\* C13: while a run is in flight the phase never moves back along PARSING,
\* CHUNKING, SUMMARIZING, POLISHING, COMPLETED / ERROR, and a run issues its
\* polish call only when its consolidation call has resolved.
C13_PhaseOnlyMovesForward ==
    [][\A r \in RunIds :
          /\ Active(r) => PhaseRank(processingState') >= PhaseRank(processingState)
          /\ (runs[r].pc # "polish" /\ runs'[r].pc = "polish")
                => runs[r].pc = "consolidate" /\ "consolidate" \in runs[r].issued]_vars

\* C14: a run that has ended changes nothing again, and the phase never goes
\* from COMPLETED or ERROR to PARSING without IDLE in between.
C14_TerminalPhases ==
    [][/\ \A r \in RunIds : runs[r].pc = "done" => runs'[r] = runs[r]
       /\ processingState \in {"COMPLETED", "ERROR"} => processingState' # "PARSING"]_vars

\* The phases of a run in progress.
RunningPhases == {"PARSING", "CHUNKING", "SUMMARIZING", "POLISHING"}

\* The runs in flight after the step.
InFlightNext == {r \in RunIds : runs'[r].pc \notin {"none", "done"}}

\* C15: while the phase is that of a run in progress, a step that is not a
\* continuation of a run leaves phase, progress and final summary alone, and
\* at most one run is in flight.
C15_ExclusiveOwnership ==
    [][(processingState \in RunningPhases)
          => /\ (\A r \in RunIds : runs'[r] = runs[r])
                   => UNCHANGED <<processingState, progress, finalSummary>>
             /\ Cardinality(InFlightNext) <= 1]_vars

\* The text the k-th iteration cut, before trimming.
SliceText(k) == Slice(split.text, split.slices[k].from, split.slices[k].to)

RECURSIVE Flatten(_)
Flatten(parts) ==
    IF parts = <<>> THEN <<>> ELSE Head(parts) \o Flatten(Tail(parts))

NonSpace(s) == SelectSeq(s, LAMBDA c : ~IsSpace(c))

\* The slices cut so far, trimmed, without those that were only whitespace.
TrimmedSlices ==
    SelectSeq([k \in 1..Len(split.slices) |-> Trim(SliceText(k))],
              LAMBDA chunk : chunk # <<>>)

SlicesCover ==
    /\ \A k \in 1..Len(split.slices) :
          /\ split.slices[k].from = IF k = 1 THEN 0 ELSE split.slices[k - 1].to
          /\ split.slices[k].to > split.slices[k].from
          /\ split.slices[k].to <= Len(split.text)
    /\ split.startIndex = IF split.slices = <<>> THEN 0
                          ELSE split.slices[Len(split.slices)].to
    /\ split.chunks = TrimmedSlices
    /\ split.pc = "done"
          => /\ split.startIndex = Len(split.text)
             /\ Flatten([k \in 1..Len(split.slices) |-> SliceText(k)]) = split.text
             /\ NonSpace(Flatten(split.chunks)) = NonSpace(split.text)
             /\ split.chunks = smartSplitText(split.text, split.maxSize)

\* C16: for every text and every maxSize > 0, smartSplitText returns; the
\* slices its iterations cut are consecutive, start at 0 and end at the end
\* of the text, so that joined they are the text; the chunks are these slices
\* in order, each trimmed of its leading and trailing whitespace (a slice of
\* whitespace only gives no chunk), so no character other than whitespace is
\* lost, repeated or moved.
C16_SlicesCoverText == <>(split.pc = "done") /\ []SlicesCover

\* A call that has returned after cutting more than one slice, one of them
\* trimmed and one of them dropped for being whitespace only.
C16_Witness ==
    /\ split.pc = "done"
    /\ Len(split.slices) >= 2
    /\ Len(split.chunks) = Len(split.slices) - 1
    /\ \E k \in 1..Len(split.slices) :
          /\ Trim(SliceText(k)) # <<>>
          /\ Len(Trim(SliceText(k))) < Len(SliceText(k))

\* C17 as stated: a text shorter than maxSize always comes back as exactly one
\* chunk.
C17_ShorterTextOneChunk ==
    (split.pc = "done" /\ Len(split.text) < split.maxSize) => Len(split.chunks) = 1

\* C17: a text shorter than maxSize that has a character other than whitespace
\* comes back as exactly one chunk, the trimmed text, whether or not a sentence
\* boundary stands near its end; the empty text and a text of whitespace only
\* come back as no chunk at all.  The loop cuts nothing but the whole text.
C17_ShorterTextAtMostOneChunk ==
    Len(split.text) < split.maxSize
       => /\ split.slices \in {<<>>, <<[from |-> 0, to |-> Len(split.text)]>>}
          /\ split.pc = "done"
                => split.chunks = IF Trim(split.text) # <<>> THEN <<Trim(split.text)>>
                                  ELSE <<>>

\* A text shorter than maxSize with a sentence boundary inside the stretch a
\* lookback would search, returned as one chunk that had to be trimmed.
C17_Witness ==
    /\ split.pc = "done"
    /\ Len(split.text) < split.maxSize
    /\ Lookback(split.maxSize) >= 2
    /\ split.text[Len(split.text) - 1] = "."
    /\ split.text[Len(split.text)] = " "
    /\ split.chunks = <<Trim(split.text)>>

\* C18 as stated: a text that is not empty comes back as at least one chunk,
\* the empty text as the empty sequence.
C18_NonEmptyTextSomeChunk ==
    split.pc = "done"
       => /\ Len(split.text) > 0 => Len(split.chunks) >= 1
          /\ Len(split.text) = 0 => split.chunks = <<>>

\* C18: under every maxSize > 0, a text with a character other than whitespace
\* comes back as at least one chunk; the empty text, and a text of whitespace
\* only, come back as the empty sequence.
C18_SomeChunkIffNotBlank ==
    split.pc = "done"
       => (Len(split.chunks) >= 1 <=> \E k \in 1..Len(split.text) : ~IsSpace(split.text[k]))

\* A text that opens with a slice of whitespace only and has another character
\* further on, returned with a chunk.
C18_Witness ==
    /\ split.pc = "done"
    /\ Len(split.slices) >= 2
    /\ Trim(SliceText(1)) = <<>>
    /\ Len(split.chunks) >= 1

\* C19: every pass through the loop of smartSplitText leaves startIndex
\* strictly greater than it found it, for every text and every maxSize > 0,
\* also when the boundary found is the first character of the lookback window
\* and when the window is empty; the loop has run at most len(text) times at
\* any moment, and it ends.
C19_CursorAdvances ==
    /\ [][(split.pc = "loop" /\ split'.pc = "loop")
             => split'.startIndex > split.startIndex]_vars
    /\ [](Len(split.slices) <= Len(split.text))
    /\ <>(split.pc = "done")

\* A pass that cut at a boundary standing first in a lookback window of two
\* characters.
C19_Witness ==
    /\ split.pc = "loop"
    /\ Lookback(split.maxSize) = 2
    /\ Len(split.text) > split.maxSize
    /\ split.text[split.maxSize - 1] = "."
    /\ split.text[split.maxSize] = "a"
    /\ split.slices = <<[from |-> 0, to |-> split.maxSize - 1]>>
    /\ split.startIndex = split.maxSize - 1

\* C20: every chunk smartSplitText holds or returns is non-empty, neither
\* begins nor ends with whitespace, and is at most maxSize characters long;
\* the chunks stand at positions 1..n of the sequence in the order of the
\* slices of the text they were trimmed from.
C20_ChunksWellFormed ==
    /\ \A k \in 1..Len(split.chunks) :
          /\ split.chunks[k] # <<>>
          /\ ~IsSpace(split.chunks[k][1])
          /\ ~IsSpace(split.chunks[k][Len(split.chunks[k])])
          /\ Len(split.chunks[k]) <= split.maxSize
    /\ DOMAIN split.chunks = 1..Len(TrimmedSlices)
    /\ \A k \in 1..Len(split.chunks) : split.chunks[k] = TrimmedSlices[k]
    /\ \A k \in 2..Len(split.slices) : split.slices[k - 1].from < split.slices[k].from

\* Several chunks returned, one as long as maxSize allows and one that lost
\* the whitespace its slice began with.
C20_Witness ==
    /\ split.pc = "done"
    /\ Len(split.chunks) >= 2
    /\ \E k \in 1..Len(split.chunks) : Len(split.chunks[k]) = split.maxSize
    /\ \E k \in 1..Len(split.slices) :
          /\ Trim(SliceText(k)) # <<>>
          /\ IsSpace(SliceText(k)[1])

\* The characters smartSplitText takes for the end of a sentence.
IsBoundary(c) == c \in {".", "!", "?", "\n"}

\* The number of whole pieces of maxSize characters in the text followed.
WholePieces == Len(split.text) \div split.maxSize

\* No boundary character stands in the lookback window before a multiple of
\* maxSize inside the text, and no whitespace on either side of it.
CleanCuts ==
    \A j \in 1..(WholePieces - 1) :
       /\ \A p \in (j * split.maxSize - Lookback(split.maxSize) + 1)..(j * split.maxSize) :
             ~IsBoundary(split.text[p])
       /\ ~IsSpace(split.text[j * split.maxSize])
       /\ ~IsSpace(split.text[j * split.maxSize + 1])

\* C21 as stated: a text of k * maxSize characters with no boundary in a
\* lookback window before a cut and no whitespace next to a cut comes back as
\* exactly k chunks, each non-empty and at most maxSize long.
C21_WholePiecesGiveChunks ==
    (/\ split.pc = "done"
     /\ WholePieces >= 1
     /\ Len(split.text) = WholePieces * split.maxSize
     /\ CleanCuts)
       => /\ Len(split.chunks) = WholePieces
          /\ \A k \in 1..Len(split.chunks) :
                split.chunks[k] # <<>> /\ Len(split.chunks[k]) <= split.maxSize

\* C21: a text of k * maxSize characters that has a character other than
\* whitespace, no boundary in a lookback window before a cut and no whitespace
\* next to a cut is cut at the multiples of maxSize and comes back as exactly
\* k chunks, each non-empty and at most maxSize long.
C21_CleanWholePiecesGiveChunks ==
    (/\ split.pc = "done"
     /\ WholePieces >= 1
     /\ Len(split.text) = WholePieces * split.maxSize
     /\ Trim(split.text) # <<>>
     /\ CleanCuts)
       => /\ Len(split.chunks) = WholePieces
          /\ \A k \in 1..Len(split.chunks) :
                /\ split.chunks[k] # <<>>
                /\ Len(split.chunks[k]) <= split.maxSize
          /\ split.slices = [j \in 1..WholePieces |->
                                [from |-> (j - 1) * split.maxSize, to |-> j * split.maxSize]]

\* A text of two pieces under a maxSize with a lookback window, a boundary
\* standing in the first piece before the window, returned as two chunks.
C21_Witness ==
    /\ split.pc = "done"
    /\ Lookback(split.maxSize) >= 1
    /\ Len(split.text) = 2 * split.maxSize
    /\ CleanCuts
    /\ \E p \in 1..split.maxSize : IsBoundary(split.text[p])
    /\ Len(split.chunks) = 2

\* The end a slice that starts at `from` is to have: the end of the text if
\* from + maxSize reaches it; otherwise just after the last boundary character
\* among the Lookback(maxSize) characters before from + maxSize, and
\* from + maxSize itself if there is none.
ExpectedEnd(from) ==
    LET candidate == Min(from + split.maxSize, Len(split.text))
        window == (candidate - Lookback(split.maxSize) + 1)..candidate
        found == {p \in window : IsBoundary(split.text[p])}
    IN  IF candidate = Len(split.text) THEN Len(split.text)
        ELSE IF found = {} THEN from + split.maxSize
        ELSE CHOOSE p \in found : \A q \in found : q <= p

IssuedNow(r) ==
    IF runs'[r].pc = "extract" THEN runs'[r].pending \ runs[r].pending ELSE {}

\* C29: a run issues the calls of a batch only in a step that leaves no call
\* of its earlier batches unsettled: at most one of them was still in flight,
\* it settles in that very step, by resolving or by rejecting, and every result
\* of the batch before is in; the calls issued are the whole next batch, and
\* all of them come after the chunks of the batches before.
C29_BatchesInOrder ==
    [][\A r \in RunIds :
          (IssuedNow(r) # {})
             => /\ Cardinality(runs[r].pending) <= 1
                /\ runs'[r].pending \cap runs[r].pending = {}
                /\ \A k \in 1..Len(runs[r].results) :
                      runs[r].results[k].settled \/ runs[r].results[k].idx \notin runs'[r].pending
                /\ \A k \in 1..Len(runs[r].results) :
                      ~runs[r].results[k].settled
                         => Cardinality({j \in 1..Len(runs[r].results) :
                                            ~runs[r].results[j].settled}) = 1
                /\ runs'[r].pending = BatchOf(runs'[r].i, runs'[r].totalChunks)
                /\ \A idx \in runs'[r].pending : \A old \in runs[r].pending : idx > old
                /\ \A idx \in runs'[r].pending : idx >= runs[r].i + Len(runs[r].results)]_vars

\* A second batch in flight after a first one in which a call was rejected and
\* a call settled before one of a lower index.
C29_Witness ==
    \E r \in RunIds :
       /\ runs[r].pc = "extract"
       /\ runs[r].i > 0
       /\ runs[r].pending # {}
       /\ runs[r].failed # {}
       /\ runs[r].raced

\* How many times a record stands in a list.
Count(items, item) == Cardinality({k \in 1..Len(items) : items[k] = item})

Ids(items) == {items[k].id : k \in 1..Len(items)}

\* C22: an import keeps every record of history as it was, as many times as
\* it stood there; a record the import adds is a record of the backup whose
\* identifier no record of history had; and a backup whose records all have
\* identifiers of history leaves history with the same length and the same
\* records.
C22_ImportKeepsExisting ==
    [][\A backup \in BackupFiles :
          ImportBackup(backup)
             => /\ \A k \in 1..Len(history) :
                      Count(history', history[k]) = Count(history, history[k])
                /\ \A k \in 1..Len(history') :
                      Count(history, history'[k]) = 0
                         => /\ history'[k].id \notin Ids(history)
                            /\ \E j \in 1..Len(backup.items.elements) :
                                  backup.items.elements[j] = history'[k]
                /\ Ids(backup.items.elements) \subseteq Ids(history)
                      => /\ Len(history') = Len(history)
                         /\ \A k \in 1..Len(history') :
                               Count(history', history'[k]) = Count(history, history'[k])]_vars

\* A backup with another record under the stored record's identifier has been
\* imported: the stored record stands as it was.
C22_Witness ==
    /\ alerted = RestoreMsg
    /\ history = <<StoredItem>>
    /\ userEvents = 1

\* C23: in every state no two records of history have one identifier, whatever
\* runs completed, records were deleted and backups were imported, a backup
\* with two records of one identifier among them.
C23_HistoryKeyedById ==
    \A j, k \in 1..Len(history) : j # k => history[j].id # history[k].id

\* C24: in every state the records of history stand latest first: no record
\* is followed by one with a later timestamp, also after a record dated later
\* than a run was imported before that run was saved.
C24_HistoryLatestFirst ==
    \A k \in 1..(Len(history) - 1) : history[k].timestamp >= history[k + 1].timestamp

\* The version of a backup is one the format knows: a number.
VersionValid(version) == version.type = "number"

\* C25: an import of a file that does not parse, whose version is missing or
\* is not valid, or whose items are not a list, is refused with a format
\* error and leaves history as it was.
C25_ImportValidates ==
    [][\A backup \in BackupFiles :
          (/\ ImportBackup(backup)
           /\ \/ ~backup.parses
              \/ backup.version.type = "undefined"
              \/ ~VersionValid(backup.version)
              \/ ~backup.items.isArray)
             => /\ history' = history
                /\ alerted' \in {InvalidFormatMsg, ParseFailedMsg}]_vars

\* Run r returns in this step.
EndsNow(r) == runs[r].pc \notin {"none", "done"} /\ runs'[r].pc = "done"

\* C26: the step in which a run returns with COMPLETED, polished or partial,
\* puts exactly one record first in history, holding the summary shown; the
\* step in which it returns with ERROR leaves history as it was; a step of a
\* run that does not return leaves history as it was; and a run that has
\* returned takes no step again, so that no run saves twice.
C26_RecordOncePerCompletedRun ==
    [][\A r \in RunIds :
          /\ (EndsNow(r) /\ processingState' = "COMPLETED")
                => /\ Len(history') = Len(history) + 1
                   /\ Tail(history') = history
                   /\ Head(history').summary = finalSummary'
                   /\ Head(history').id \notin Ids(history)
          /\ (EndsNow(r) /\ processingState' = "ERROR") => history' = history
          /\ EndsNow(r) => processingState' \in {"COMPLETED", "ERROR"}
          /\ (runs'[r] # runs[r] /\ ~EndsNow(r)) => history' = history
          /\ runs[r].pc = "done" => runs'[r] = runs[r]]_vars

\* Two runs have returned, one with ERROR and one with a partial COMPLETED,
\* after a backup was imported: history holds the one record saved.
C26_Witness ==
    /\ \E r \in RunIds : runs[r].pc = "done" /\ runs[r].exit = "error"
    /\ \E r \in RunIds : runs[r].pc = "done" /\ runs[r].exit = "partial"
    /\ alerted = RestoreMsg
    /\ Cardinality({k \in 1..Len(history) : history[k].id > 0}) = 1

\* C27: when a run returns on an exception, with ERROR or with a partial
\* COMPLETED, the log holds an entry with the message of the exception caught.
C27_CaughtErrorIsLogged ==
    [][\A r \in RunIds :
          (EndsNow(r) /\ runs'[r].exit \in {"error", "partial"})
             => \E entry \in logs' : entry.detail = runs'[r].error]_vars

\* C28: in every state the estimated total duration, once set, is not
\* negative, and the remaining time shown, max(0, estimate - elapsed), is not
\* negative either, also when more time has passed than was estimated.
C28_EstimateAndRemainingNotNegative ==
    /\ ~timer.estimatedTotalDuration.isNull => timer.estimatedTotalDuration.value >= 0
    /\ ~remainingDisplay.isNull => remainingDisplay.value >= 0

\* A run in its last stages for longer than the estimate its batches gave: no
\* time is shown as remaining.
C28_Witness ==
    /\ timer.pc = "stages"
    /\ processingState = "POLISHING"
    /\ ~timer.estimatedTotalDuration.isNull
    /\ timer.estimatedTotalDuration.value < MIN_ESTIMATE
    /\ timer.elapsedSeconds > timer.estimatedTotalDuration.value
    /\ remainingDisplay = Number(0)

\* C31: each time a batch has settled the estimate becomes
\* ceil(elapsed + avg * remaining + avg * 1.5), with avg = elapsed / completed,
\* completed the chunks finished so far and remaining = total - completed;
\* completed is then at least 1 and remaining lies between 0 and total.
C31_EstimateRenewedAfterBatch ==
    [][(timer.pc = "batch" /\ timer'.i # timer.i) =>
          LET completed == timer'.chunksCompleted
              total == timer.totalChunks
              remaining == total - completed
              elapsedMs == timer.now - timer.startT
              estimate == timer'.estimatedTotalDuration
              \* elapsed + avg * remaining + avg * 1.5, times 2000 * completed
              scaled == elapsedMs * (2 * completed + 2 * remaining + 3)
          IN  /\ completed = Min(timer'.i, total)
              /\ completed >= 1
              /\ 0 <= remaining /\ remaining <= total
              /\ ~estimate.isNull
              /\ (estimate.value - 1) * 2 * MS_PER_SECOND * completed < scaled
              /\ scaled <= estimate.value * 2 * MS_PER_SECOND * completed]_vars

\* A batch that was not the last has settled some time after the run began.
C31_Witness ==
    /\ timer.pc = "batch"
    /\ timer.chunksCompleted >= 1
    /\ timer.chunksCompleted < timer.totalChunks
    /\ timer.now > timer.startT
    /\ ~timer.estimatedTotalDuration.isNull
    /\ timer.estimatedTotalDuration.value > 0
    /\ processingState = "SUMMARIZING"

\* C32: from the end of parsing until the first batch has settled the estimate
\* is max(30, ceil(textLength * 0.00048)), so at least 30 seconds.
C32_SeededEstimate ==
    (timer.pc = "batch" /\ timer.chunksCompleted = 0) =>
        LET estimate == timer.estimatedTotalDuration
            scaled == timer.textLength * SECONDS_PER_ESTIMATE_UNIT
        IN  /\ ~estimate.isNull
            /\ estimate.value >= MIN_ESTIMATE
            /\ \/ /\ estimate.value = MIN_ESTIMATE
                  /\ scaled <= MIN_ESTIMATE * CHARS_PER_ESTIMATE_UNIT
               \/ /\ (estimate.value - 1) * CHARS_PER_ESTIMATE_UNIT < scaled
                  /\ scaled <= estimate.value * CHARS_PER_ESTIMATE_UNIT

\* C33: when a batch has settled progress is round(completed / total * 60),
\* which is 60 after the last batch; progress is at most 60 whenever the phase
\* is SUMMARIZING; it becomes 80 only in the step in which a consolidation call
\* succeeds and 100 only in the step in which a polish call succeeds.
C33_ProgressByStage ==
    [][/\ \A r \in RunIds :
             BatchEnded(r)
             => LET total == runs[r].totalChunks
                    completed == Min(runs'[r].i, total)
                IN  /\ 2 * total * progress' <= 2 * completed * EXTRACT_WEIGHT + total
                    /\ 2 * completed * EXTRACT_WEIGHT + total < 2 * total * (progress' + 1)
                    /\ completed = total => progress' = EXTRACT_WEIGHT
       /\ processingState' = "SUMMARIZING" => progress' <= EXTRACT_WEIGHT
       /\ (progress' = CONSOLIDATED_PROGRESS /\ progress # CONSOLIDATED_PROGRESS)
              => \E r \in RunIds : runs[r].pc = "consolidate" /\ runs'[r].pc = "polish"
       /\ (progress' = COMPLETED_PROGRESS /\ progress # COMPLETED_PROGRESS)
              => \E r \in RunIds : /\ runs[r].pc = "polish"
                                   /\ runs'[r].pc = "done"
                                   /\ runs'[r].exit = "completed"]_vars

\* The Draft a run has built from its own fragments: the one it gave to the
\* consolidation call, or the join of the results it has stored so far.
OwnDraft(run) ==
    IF run.pc \in {"consolidate", "polish"} THEN run.combinedDraft
    ELSE JoinDraft(run.extractedSummaries)

\* C34: a run that ends as partial shows the Draft built from its own fragments,
\* which is longer than 500 characters; the Draft kept is empty after the step
\* that starts a run and after a file selection.
C34_RecoveryUsesOwnDraft ==
    [][/\ \A r \in RunIds :
             (EndsNow(r) /\ runs'[r].exit = "partial")
                 => /\ DraftRecoverable(OwnDraft(runs[r]))
                    /\ finalSummary' = OwnDraft(runs[r])
       /\ \A r \in RunIds :
             (runs[r].pc = "none" /\ runs'[r].pc # "none") => currentDraftRef' = <<>>
       /\ (userEvents' # userEvents /\ processingState' = "IDLE")
              => currentDraftRef' = <<>>]_vars

\* C35: whenever the phase is COMPLETED the progress percentage is 100.
C35_CompletedMeansFullProgress ==
    processingState = "COMPLETED" => progress = COMPLETED_PROGRESS

\* C36: no step of a run lowers the session token counter, and when a run
\* returns the counter has grown, since the run began, by exactly the tokens
\* its resolved calls reported.
C36_TokensCounted ==
    [][/\ sessionTokens' >= sessionTokens
       /\ \A r \in RunIds :
             EndsNow(r) => sessionTokens' - runs[r].sessionTokens = runs'[r].tokens]_vars

\* The records of a history, whatever their order.
Records(items) == {items[k] : k \in 1..Len(items)}

\* C37: an import of the backup that was imported just before leaves history
\* as that first import left it, and an import of the file just exported from
\* the current history leaves the records of history the same.
C37_ImportIdempotent ==
    [][\A backup \in ImportableFiles :
          ImportFollowed(backup)
             => /\ backups.imported = <<backup>> => history' = history
                /\ backup = ExportedFile(history)
                      => /\ Records(history') = Records(history)
                         /\ Len(history') = Len(history)]_vars

\* The file exported from a history of two records has been imported twice in a row.
C37_Witness ==
    /\ backups.exported # <<>>
    /\ backups.imported = backups.exported
    /\ backups.repeats = 2
    /\ Len(history) = 2
    /\ alerted = RestoreMsg

====
